---------------------------- MODULE Spec2Model ----------------------------
(***************************************************************************)
(* Model of streamlit_museu_app.py (NUGEP collection documentation app).   *)
(*                                                                         *)
(* Streamlit reruns the whole script on every interaction: line 43 loads   *)
(* the table (load_acervo), then exactly one menu branch runs.  A session  *)
(* is one browser tab; a run of the script is Run (the load), then the     *)
(* branch, then Fim (the script ends and its memory is dropped).           *)
(*                                                                         *)
(* Text is a sequence of characters over Alphabet.  The only upper-case    *)
(* letter is "A", the only whitespace " ", the only regex metacharacter    *)
(* "(" (the alphabet holds no ")", so a pattern holding "(" never          *)
(* compiles).                                                              *)
(***************************************************************************)
EXTENDS Integers, Sequences, FiniteSets, TLC

VARIABLES
    data_csv,    \* DATA_CSV: the seed table of sample_acervo.csv (never written)
    db_json,     \* DB_JSON: the catalog snapshot file
    logs_json,   \* LOGS_JSON: the usage log file
    clock,       \* number of time.time() readings taken by log_event
    runs,        \* number of script runs started
    pc,          \* per session: "idle", "loaded", "saved", "done"
    menu,        \* per session: the branch of the current run
    acervo_df,   \* per session: the in-memory table of the current run
    entrada,     \* per session: the widget values of the current run
    tela,        \* per session: what the run rendered
    erro         \* per session: the exception that ended the run, and where

vars == <<data_csv, db_json, logs_json, clock, runs, pc, menu, acervo_df,
          entrada, tela, erro>>

-----------------------------------------------------------------------------
(* Bounds *)

\* Script runs explored (all sessions together).
MaxRuns == 3

Sessions == {1, 2}

-----------------------------------------------------------------------------
(* Text *)

Alphabet == {" ", "(", "A", "a", "b"}

\* Code point order of the characters (str comparison in heapq.nlargest).
Ord(c) ==
    CASE c = " " -> 32
      [] c = "(" -> 40
      [] c = "A" -> 65
      [] c = "a" -> 97
      [] c = "b" -> 98
      [] OTHER   -> 0

\* str.lower() on one character.
LowerChar(c) == IF c = "A" THEN "a" ELSE c

\* str.lower()
Lower(s) == [i \in 1..Len(s) |-> LowerChar(s[i])]

IsSpace(c) == c = " "

RECURSIVE LStrip(_)
LStrip(s) ==
    IF s # <<>> /\ IsSpace(Head(s)) THEN LStrip(Tail(s)) ELSE s

RECURSIVE RStrip(_)
RStrip(s) ==
    IF s # <<>> /\ IsSpace(s[Len(s)])
    THEN RStrip(SubSeq(s, 1, Len(s) - 1))
    ELSE s

\* str.strip()
Strip(s) == RStrip(LStrip(s))

\* s < t in Python's str order (lexicographic by code point).
RECURSIVE StrLess(_, _)
StrLess(s, t) ==
    IF t = <<>> THEN FALSE
    ELSE IF s = <<>> THEN TRUE
    ELSE IF Ord(Head(s)) # Ord(Head(t)) THEN Ord(Head(s)) < Ord(Head(t))
    ELSE StrLess(Tail(s), Tail(t))

-----------------------------------------------------------------------------
(* Record ids: a column of a DataFrame holds numbers (int64) or text.      *)

IntId(n) == [t |-> "int", n |-> n, s |-> <<>>]
StrId(s) == [t |-> "str", n |-> 0, s |-> s]
NoId == [t |-> "none", n |-> 0, s |-> <<>>]

Digits == <<"0", "1", "2", "3", "4", "5", "6", "7", "8", "9">>

\* str(n) for n >= 0: the decimal digits, most significant first.
RECURSIVE Str(_)
Str(n) ==
    IF n < 10 THEN <<Digits[n + 1]>>
    ELSE Str(n \div 10) \o <<Digits[(n % 10) + 1]>>

DigitValue(c) == CHOOSE d \in 0..9 : Digits[d + 1] = c

\* The number a string of decimal digits denotes (float(s) then int64).
RECURSIVE ParseInt(_)
ParseInt(s) ==
    IF s = <<>> THEN 0
    ELSE 10 * ParseInt(SubSeq(s, 1, Len(s) - 1)) + DigitValue(s[Len(s)])

\* The numeric value of an id, whatever its type.
IdValue(id) == IF id.t = "int" THEN id.n ELSE ParseInt(id.s)

-----------------------------------------------------------------------------
(* difflib: SequenceMatcher(a = a title, b = the query), no junk (autojunk *)
(* only applies to sequences of 200 elements or more).  Offsets are        *)
(* 0-based and ranges half-open, as in difflib.                            *)

\* a[i:i+k] == b[j:j+k]
BlockMatches(a, b, i, j, k) == \A d \in 1..k : a[i + d] = b[j + d]

\* The matching blocks (i, j, k) with k >= 1 inside a[alo:ahi], b[blo:bhi].
MatchingBlocksIn(a, b, alo, ahi, blo, bhi) ==
    {blk \in (alo..ahi) \X (blo..bhi) \X (1..(ahi - alo)) :
        /\ blk[1] + blk[3] <= ahi
        /\ blk[2] + blk[3] <= bhi
        /\ BlockMatches(a, b, blk[1], blk[2], blk[3])}

\* find_longest_match: the longest block; of those the one that starts
\* earliest in a; of those the one that starts earliest in b; (alo, blo, 0)
\* when nothing matches.
FindLongestMatch(a, b, alo, ahi, blo, bhi) ==
    LET blocks == MatchingBlocksIn(a, b, alo, ahi, blo, bhi)
    IN  IF blocks = {} THEN <<alo, blo, 0>>
        ELSE CHOOSE x \in blocks : \A y \in blocks :
                \/ x[3] > y[3]
                \/ x[3] = y[3] /\ x[1] < y[1]
                \/ x[3] = y[3] /\ x[1] = y[1] /\ x[2] <= y[2]

\* get_matching_blocks, summed: the number of matched characters.
RECURSIVE Matches(_, _, _, _, _, _)
Matches(a, b, alo, ahi, blo, bhi) ==
    LET x == FindLongestMatch(a, b, alo, ahi, blo, bhi)
        i == x[1]
        j == x[2]
        k == x[3]
    IN  IF k = 0 THEN 0
        ELSE k
             + (IF alo < i /\ blo < j THEN Matches(a, b, alo, i, blo, j) ELSE 0)
             + (IF i + k < ahi /\ j + k < bhi
                THEN Matches(a, b, i + k, ahi, j + k, bhi) ELSE 0)

\* ratio() = 2.0*matches/length, or 1.0 when both are empty, kept as the
\* fraction <<numerator, denominator>>.
Ratio(a, b) ==
    IF Len(a) + Len(b) = 0 THEN <<1, 1>>
    ELSE <<2 * Matches(a, b, 0, Len(a), 0, Len(b)), Len(a) + Len(b)>>

\* cutoff=0.6 of get_close_matches, as CutoffNum/CutoffDen.
CutoffNum == 6
CutoffDen == 10

RatioGE(r, num, den) == r[1] * den >= num * r[2]
RatioLess(r1, r2) == r1[1] * r2[2] < r2[1] * r1[2]
RatioEq(r1, r2) == r1[1] * r2[2] = r2[1] * r1[2]

\* difflib.get_close_matches(word, possibilities, n=1, cutoff=0.6): the
\* possibilities scoring at least the cutoff are collected as (score, x)
\* and heapq.nlargest(1, ...) takes the greatest pair: the highest score
\* and, among equal scores, the greatest string.  (real_quick_ratio and
\* quick_ratio are upper bounds of ratio and only save work.)
GetCloseMatches(word, possibilities) ==
    LET good == {i \in 1..Len(possibilities) :
                    RatioGE(Ratio(possibilities[i], word), CutoffNum, CutoffDen)}
        Below(i, j) ==
            LET ri == Ratio(possibilities[i], word)
                rj == Ratio(possibilities[j], word)
            IN  \/ RatioLess(ri, rj)
                \/ RatioEq(ri, rj) /\ StrLess(possibilities[i], possibilities[j])
    IN  IF good = {} THEN <<>>
        ELSE LET best == CHOOSE i \in good : \A j \in good : ~Below(i, j)
             IN  <<possibilities[best]>>

-----------------------------------------------------------------------------
(* pandas Series.str.contains(pat): pat is a regular expression            *)
(* (regex=True is the default) searched anywhere in the value.             *)

\* re.compile(pat) raises re.error: an unterminated group.
RegexInvalid(pat) == \E i \in 1..Len(pat) : pat[i] = "("

\* re.search(pat, s) for a pattern of literal characters.
StrContains(s, pat) ==
    \E o \in 0..(Len(s) - Len(pat)) : SubSeq(s, o + 1, o + Len(pat)) = pat

-----------------------------------------------------------------------------
(* The table.  A record carries id, titulo, descricao, tags, imagem and    *)
(* the coordinates; autor, ano, categoria and endereco are free text that  *)
(* is stored and rendered like titulo and read by no decision.             *)
(* A coordinate is "num" (a number), "txt" (text that is no number) or     *)
(* "nan" (missing).                                                        *)

Row(id, titulo, descricao, tags, imagem, lat, lon) ==
    [id |-> id, titulo |-> titulo, descricao |-> descricao, tags |-> tags,
     imagem |-> imagem, latitude |-> lat, longitude |-> lon]

\* The seed tables sample_acervo.csv may hold (pd.read_csv reads a numeric
\* id column as int64).
SeedTables ==
    { <<>>,
      << Row(IntId(3), <<"A", "b">>, <<"b", "a">>, <<"b">>, <<>>, "num", "num"),
         Row(IntId(1), <<"a", "b">>, <<"a">>, <<"a", "(">>, <<>>, "txt", "num") >>,
      << Row(IntId(9), <<"a", "a", "b">>, <<"b", " ", "a">>, <<>>, <<>>, "nan", "nan") >> }

\* What the "Criar Ficha" form may submit: titulo, descricao, tags and the
\* uploaded image ("none", "ok", or "bad": a file PIL cannot open).
Fichas ==
    { [titulo |-> <<"b">>, descricao |-> <<>>, tags |-> <<>>, imagem |-> "none"],
      [titulo |-> <<"A", "b">>, descricao |-> <<"a", "a">>, tags |-> <<"b">>,
       imagem |-> "ok"],
      [titulo |-> <<"a">>, descricao |-> <<"b">>, tags |-> <<>>, imagem |-> "bad"] }

NoFicha == [titulo |-> <<>>, descricao |-> <<>>, tags |-> <<>>, imagem |-> "none"]

\* What the chatbot's text input may hold when "Enviar" is pressed.
Perguntas ==
    { <<>>, <<" ">>, <<"A", "b", " ">>, <<"b">>, <<"b", "a">>, <<"a", "a">>,
      <<"(">> }

Menus == {"Dashboard", "Criar Ficha", "Mapa Interativo", "Galeria", "Chatbot"}

Entrada(pergunta, ficha, click) ==
    [pergunta |-> pergunta, ficha |-> ficha, click |-> click]

NoEntrada == Entrada(<<>>, NoFicha, 0)

Tela(kind, idx, n) == [kind |-> kind, idx |-> idx, n |-> n]

NoTela == Tela("", 0, 0)

\* An exception and the function that raised it.
Raised(exc, at) == [exc |-> exc, at |-> at]

NoErro == Raised("none", "")

-----------------------------------------------------------------------------
(* Files *)

Absent == [st |-> "absent", rows |-> <<>>]
Corrupt == [st |-> "corrupt", rows |-> <<>>]
JsonTable(rows) == [st |-> "ok", rows |-> rows]

\* pd.read_json(DB_JSON, orient="records"): an object column whose values
\* all convert to numbers is read as int64, so the id "4" a submission
\* wrote comes back as the number 4.
ReadJson(file) ==
    [i \in 1..Len(file.rows) |->
        [file.rows[i] EXCEPT !.id = IntId(IdValue(file.rows[i].id))]]

\* load_acervo(): the snapshot when it exists and parses, else the seed.
load_acervo(db, csv) ==
    IF db.st # "absent" /\ db.st # "corrupt" THEN ReadJson(db) ELSE csv

\* A write that keeps the rows the file holds and the table lacks.
ToJsonMerge(db, df) ==
    JsonTable(df \o SelectSeq(db.rows,
                              LAMBDA r : \A i \in 1..Len(df) : df[i] # r))

\* df.to_json(DB_JSON, ...): the file is opened for writing and replaced by
\* the whole table, whatever it held.
ToJson(db, df) == JsonTable(df)

\* save_acervo(df) under an outcome of the write: "ok"; "falha" (the file
\* cannot be opened: it is left as it was); "truncado" (the write breaks
\* off: what is left does not parse).  The last two raise OSError.
save_acervo(db, df, escrita) ==
    CASE escrita = "ok"       -> [file |-> ToJson(db, df), raised |-> "none"]
      [] escrita = "truncado" -> [file |-> Corrupt, raised |-> "OSError"]
      [] OTHER                -> [file |-> db, raised |-> "OSError"]

Escritas == {"ok", "falha", "truncado"}
Leituras == {"ok", "erro"}

\* json.dumps of an entry whose id was taken from a DataFrame cell: pandas
\* hands the cell out as a Python int, which serialises, or as a
\* numpy.int64, for which json.dumps raises TypeError; which one depends on
\* how the row was extracted and on the installed pandas.
Dumps == {"ok", "TypeError"}

NoLog == [st |-> "absent", entries |-> <<>>]
GarbageLog == [st |-> "garbage", entries |-> <<>>]
NonListLog == [st |-> "nonlist", entries |-> <<>>]
ListLog(entries) == [st |-> "list", entries |-> entries]

Event(action, query, id, titulo, n) ==
    [action |-> action, query |-> query, id |-> id, titulo |-> titulo, n |-> n]

\* log_event(event) on the log file `file` at time `now`, under an outcome
\* of the read, of the serialisation and of the write.  The read and the
\* parse are inside the try; logs.append, json.dumps and write_text are not.
log_event(file, event, now, leitura, dumps, escrita) ==
    LET entry == [timestamp |-> now, event |-> event]
        exists == file.st # "absent"
        parsed == exists /\ leitura = "ok" /\ file.st # "garbage"
        logs == IF parsed /\ file.st = "list" THEN file.entries ELSE <<>>
    IN  IF parsed /\ file.st = "nonlist"
        THEN [file |-> file, raised |-> "AttributeError"]
        ELSE IF event.id.t = "int" /\ dumps = "TypeError"
        THEN [file |-> file, raised |-> "TypeError"]
        ELSE CASE escrita = "ok" ->
                    [file |-> ListLog(Append(logs, entry)), raised |-> "none"]
               [] escrita = "truncado" ->
                    [file |-> GarbageLog, raised |-> "OSError"]
               [] OTHER ->
                    [file |-> file, raised |-> "OSError"]

-----------------------------------------------------------------------------
(* The chatbot's resolution (lines 203-229), as the stage that answers and *)
(* the index of the row it answers with.                                   *)

\* q = pergunta.lower().strip()
Normalize(pergunta) == Strip(Lower(pergunta))

\* acervo_df[acervo_df["titulo"].str.lower() == t]: the rows, in table order.
TitleRows(df, t) == {i \in 1..Len(df) : Lower(df[i].titulo) = t}

\* .iloc[0] of a selection: the first selected row in table order.
First(rows) == CHOOSE i \in rows : \A j \in rows : i <= j

\* The mask of the content stage: descricao or tags, lower-cased, contains q.
ContentRows(df, q) ==
    {i \in 1..Len(df) : \/ StrContains(Lower(df[i].descricao), q)
                        \/ StrContains(Lower(df[i].tags), q)}

Answer(kind, idx) == [kind |-> kind, idx |-> idx]

ExactStage(df, q, otherwise) ==
    IF TitleRows(df, q) # {} THEN Answer("chat_exact", First(TitleRows(df, q)))
    ELSE otherwise

FuzzyStage(df, q, otherwise) ==
    LET titles == [i \in 1..Len(df) |-> Lower(df[i].titulo)]
        close == GetCloseMatches(q, titles)
    IN  IF close # <<>>
        THEN Answer("chat_fuzzy", First(TitleRows(df, close[1])))
        ELSE otherwise

ContentStage(df, q) ==
    IF RegexInvalid(q) THEN Answer("re.error", 0)
    ELSE IF ContentRows(df, q) # {}
         THEN Answer("chat_search", First(ContentRows(df, q)))
         ELSE Answer("chat_no_match", 0)

\* Resolve with the fuzzy stage tried before the exact stage.
ResolveFuzzyFirst(df, pergunta) ==
    LET q == Normalize(pergunta)
    IN  FuzzyStage(df, q, ExactStage(df, q, ContentStage(df, q)))

\* The else branch of line 201.
Resolve(df, pergunta) ==
    LET q == Normalize(pergunta)
    IN  ExactStage(df, q, FuzzyStage(df, q, ContentStage(df, q)))

\* `if not pergunta` (line 199).
BoundaryRejects(pergunta) == pergunta = <<>>

-----------------------------------------------------------------------------
(* Criar Ficha (lines 83-118) *)

MaxOf(S) == CHOOSE x \in S : \A y \in S : y <= x

\* new_id from the number of rows instead of the largest id.
new_id_count(df) == Str(Len(df) + 1)

\* new_id from the last row's id instead of the largest id.
new_id_last(df) ==
    IF df # <<>> THEN Str(IdValue(df[Len(df)].id) + 1) ELSE <<"1">>

\* new_id (line 84)
new_id(df) ==
    IF df # <<>>
    THEN Str(MaxOf({IdValue(df[i].id) : i \in 1..Len(df)}) + 1)
    ELSE <<"1">>

\* new_row (lines 105-115); the columns the form does not fill are NaN
\* after the concat.  imagem is the uploads file "obj_<new_id><ext>" (kept
\* as its <new_id>) or empty.
new_row(df, ficha) ==
    Row(StrId(new_id(df)), ficha.titulo, ficha.descricao, ficha.tags,
        IF ficha.imagem = "ok" THEN new_id(df) ELSE <<>>, "nan", "nan")

\* A concat with the frames in the other order.
ConcatFirst(df, row) == <<row>> \o df

\* pd.concat([acervo_df, pd.DataFrame([new_row])], ignore_index=True)
Concat(df, row) == Append(df, row)

-----------------------------------------------------------------------------
(* Mapa Interativo (lines 139-163) *)

\* pd.to_numeric(..., errors="coerce") on one value.
ToNumeric(v) == IF v = "txt" THEN "nan" ELSE v

\* Lines 140-141: both coordinate columns rewritten in memory.
CoerceCoords(df) ==
    [i \in 1..Len(df) |->
        [df[i] EXCEPT !.latitude = ToNumeric(df[i].latitude),
                      !.longitude = ToNumeric(df[i].longitude)]]

\* valid_df = acervo_df.dropna(subset=["latitude", "longitude"]), counted.
ValidCount(df) ==
    Cardinality({i \in 1..Len(df) : df[i].latitude # "nan" /\ df[i].longitude # "nan"})

-----------------------------------------------------------------------------
(* State machine *)

Init ==
    /\ data_csv \in SeedTables
    /\ db_json = Absent
    /\ logs_json \in {NoLog, NonListLog}
    /\ clock = 0
    /\ runs = 0
    /\ pc = [s \in Sessions |-> "idle"]
    /\ menu = [s \in Sessions |-> ""]
    /\ acervo_df = [s \in Sessions |-> <<>>]
    /\ entrada = [s \in Sessions |-> NoEntrada]
    /\ tela = [s \in Sessions |-> NoTela]
    /\ erro = [s \in Sessions |-> NoErro]

\* The end of a run of session s: what it rendered, the exception that
\* ended it (or "none"), and where the script is.
Finish(s, where, rendered, raised) ==
    /\ pc' = [pc EXCEPT ![s] = where]
    /\ tela' = [tela EXCEPT ![s] = rendered]
    /\ erro' = [erro EXCEPT ![s] = raised]

\* A call of log_event by session s; `swallow`: the call sits in a try
\* whose handler drops the exception (the gallery's, line 190).
CallLogEvent(s, event, rendered, swallow) ==
    \E leitura \in Leituras, dumps \in Dumps, escrita \in Escritas :
        LET r == log_event(logs_json, event, clock, leitura, dumps, escrita)
        IN  /\ logs_json' = r.file
            /\ clock' = clock + 1
            /\ Finish(s, "done", rendered,
                      IF swallow \/ r.raised = "none" THEN NoErro
                      ELSE Raised(r.raised, "log_event"))

\* An interaction: the script starts and line 43 loads the table.
RunMenu(s, m) ==
    /\ pc[s] = "idle"
    /\ runs < MaxRuns
    /\ runs' = runs + 1
    /\ LET df == load_acervo(db_json, data_csv)
       IN  /\ acervo_df' = [acervo_df EXCEPT ![s] = df]
           /\ \E e \in
                   CASE m = "Chatbot" ->
                           {Entrada(p, NoFicha, 0) : p \in Perguntas}
                     [] m = "Criar Ficha" ->
                           {Entrada(<<>>, f, 0) : f \in Fichas}
                     [] m = "Galeria" ->
                           {Entrada(<<>>, NoFicha, c) : c \in 0..Len(df)}
                     [] OTHER -> {NoEntrada} :
                entrada' = [entrada EXCEPT ![s] = e]
    /\ menu' = [menu EXCEPT ![s] = m]
    /\ pc' = [pc EXCEPT ![s] = "loaded"]
    /\ UNCHANGED <<data_csv, db_json, logs_json, clock, tela, erro>>

\* Line 47: the sidebar's menu.
Run(s) == \E m \in Menus : RunMenu(s, m)

\* Lines 50-61.
Dashboard(s) ==
    /\ pc[s] = "loaded" /\ menu[s] = "Dashboard"
    /\ CallLogEvent(s, Event("view_dashboard", <<>>, NoId, <<>>, Len(acervo_df[s])),
                    Tela("dashboard", 0, Len(acervo_df[s])), FALSE)
    /\ UNCHANGED <<data_csv, db_json, runs, menu, acervo_df, entrada>>

\* Lines 83-119: the submitted form up to st.success.
CriarFichaSave(s) ==
    /\ pc[s] = "loaded" /\ menu[s] = "Criar Ficha"
    /\ IF entrada[s].ficha.imagem = "bad"
       THEN \* Image.open(imagem) raises (line 87)
            /\ Finish(s, "done", Tela("exception", 0, 0),
                      Raised("UnidentifiedImageError", "Image.open"))
            /\ UNCHANGED <<db_json, acervo_df>>
       ELSE \E escrita \in Escritas :
            LET df == Concat(acervo_df[s], new_row(acervo_df[s], entrada[s].ficha))
                r == save_acervo(db_json, df, escrita)
            IN  /\ acervo_df' = [acervo_df EXCEPT ![s] = df]
                /\ db_json' = r.file
                /\ IF r.raised = "none"
                   THEN Finish(s, "saved", Tela("success", 0, 0), NoErro)
                   ELSE Finish(s, "done", Tela("exception", 0, 0),
                               Raised(r.raised, "save_acervo"))
    /\ UNCHANGED <<data_csv, logs_json, clock, runs, menu, entrada>>

\* Line 120.
CriarFichaLog(s) ==
    /\ pc[s] = "saved"
    /\ LET row == acervo_df[s][Len(acervo_df[s])]
       IN  CallLogEvent(s, Event("create_record", <<>>, row.id, row.titulo, 0),
                        tela[s], FALSE)
    /\ UNCHANGED <<data_csv, db_json, runs, menu, acervo_df, entrada>>

\* The map view, saving the table whose coordinates it converted.
MapaInterativoSalva(s) ==
    /\ pc[s] = "loaded" /\ menu[s] = "Mapa Interativo"
    /\ acervo_df' = [acervo_df EXCEPT ![s] = CoerceCoords(acervo_df[s])]
    /\ db_json' = ToJson(db_json, CoerceCoords(acervo_df[s]))
    /\ Finish(s, "done", Tela("map", 0, ValidCount(acervo_df'[s])), NoErro)
    /\ UNCHANGED <<data_csv, logs_json, clock, runs, menu, entrada>>

\* Lines 139-163, with folium installed and the coordinate columns present.
MapaInterativo(s) ==
    /\ pc[s] = "loaded" /\ menu[s] = "Mapa Interativo"
    /\ LET df == CoerceCoords(acervo_df[s])
       IN  /\ acervo_df' = [acervo_df EXCEPT ![s] = df]
           /\ IF ValidCount(df) = 0
              THEN /\ Finish(s, "done", Tela("warning", 0, 0), NoErro)
                   /\ UNCHANGED <<logs_json, clock>>
              ELSE CallLogEvent(s, Event("view_map", <<>>, NoId, <<>>, ValidCount(df)),
                                Tela("map", 0, ValidCount(df)), FALSE)
    /\ UNCHANGED <<data_csv, db_json, runs, menu, entrada>>

\* Lines 167-191: at most one "Ver ficha" button is the interaction; a card
\* whose image does not open is skipped with its button.
Galeria(s) ==
    /\ pc[s] = "loaded" /\ menu[s] = "Galeria"
    /\ \E abre \in BOOLEAN :
         LET c == entrada[s].click
         IN  IF c = 0 \/ ~abre
             THEN /\ Finish(s, "done", Tela("gallery", 0, 0), NoErro)
                  /\ UNCHANGED <<logs_json, clock>>
             ELSE CallLogEvent(s, Event("view_record", <<>>, acervo_df[s][c].id, <<>>, 0),
                               Tela("ficha", c, 0), TRUE)
    /\ UNCHANGED <<data_csv, db_json, runs, menu, acervo_df, entrada>>

\* Lines 197-229, "Enviar" pressed.
Chatbot(s) ==
    /\ pc[s] = "loaded" /\ menu[s] = "Chatbot"
    /\ LET pergunta == entrada[s].pergunta
           a == Resolve(acervo_df[s], pergunta)
       IN  IF BoundaryRejects(pergunta)
           THEN /\ Finish(s, "done", Tela("warning", 0, 0), NoErro)
                /\ UNCHANGED <<logs_json, clock>>
           ELSE IF a.kind = "re.error"
           THEN /\ Finish(s, "done", Tela("exception", 0, 0),
                          Raised("re.error", "str.contains"))
                /\ UNCHANGED <<logs_json, clock>>
           ELSE CallLogEvent(s,
                    Event(a.kind, pergunta,
                          IF a.idx = 0 THEN NoId ELSE acervo_df[s][a.idx].id,
                          <<>>, 0),
                    Tela(a.kind, a.idx, 0), FALSE)
    /\ UNCHANGED <<data_csv, db_json, runs, menu, acervo_df, entrada>>

\* The script has ended; its memory is dropped before the next interaction.
Fim(s) ==
    /\ pc[s] = "done"
    /\ pc' = [pc EXCEPT ![s] = "idle"]
    /\ menu' = [menu EXCEPT ![s] = ""]
    /\ acervo_df' = [acervo_df EXCEPT ![s] = <<>>]
    /\ entrada' = [entrada EXCEPT ![s] = NoEntrada]
    /\ tela' = [tela EXCEPT ![s] = NoTela]
    /\ erro' = [erro EXCEPT ![s] = NoErro]
    /\ UNCHANGED <<data_csv, db_json, logs_json, clock, runs>>

Branch(s) ==
    \/ Dashboard(s)
    \/ CriarFichaSave(s)
    \/ CriarFichaLog(s)
    \/ MapaInterativo(s)
    \/ Galeria(s)
    \/ Chatbot(s)
    \/ Fim(s)

\* No other session is inside a run.
Quiet(s) == \A t \in Sessions \ {s} : pc[t] = "idle"

\* Section 5's model: each interaction is handled to completion before the
\* next is considered.
Next == \E s \in Sessions : (Quiet(s) /\ Run(s)) \/ Branch(s)

Spec == Init /\ [][Next]_vars

\* Two browser sessions submitting "Criar Ficha" forms, their runs
\* interleaved at the file operations (nothing locks DB_JSON or LOGS_JSON).
NextConc ==
    \E s \in Sessions :
        \/ RunMenu(s, "Criar Ficha")
        \/ CriarFichaSave(s)
        \/ CriarFichaLog(s)
        \/ Fim(s)

SpecConc == Init /\ [][NextConc]_vars

-----------------------------------------------------------------------------
(* Properties *)

Front(seq) == SubSeq(seq, 1, Len(seq) - 1)
Last(seq) == seq[Len(seq)]

\* A chatbot run of session s that passed the boundary check and has ended.
Resolved(s) ==
    /\ pc[s] = "done" /\ menu[s] = "Chatbot"
    /\ ~BoundaryRejects(entrada[s].pergunta)

\* A submission of session s whose save completed.
Submitted(s) ==
    /\ menu[s] = "Criar Ficha"
    /\ pc[s] \in {"saved", "done"}
    /\ tela[s].kind = "success"

ChatActions == {"chat_exact", "chat_fuzzy", "chat_search", "chat_no_match"}

\* C1: a resolution answers chat_exact with the first row, in table order,
\* whose lower-cased title is the lower-cased, trimmed query whenever there
\* is such a row; chat_fuzzy only when no title equals the query;
\* chat_search only when neither of these stages found a row; chat_no_match
\* only when the content stage found none either.
C1_StagePrecedence ==
    \A s \in Sessions : Resolved(s) =>
        LET df == acervo_df[s]
            q == Strip(Lower(entrada[s].pergunta))
            equal(i) == Lower(df[i].titulo) = q
            exact == \E i \in 1..Len(df) : equal(i)
            fuzzy == GetCloseMatches(q, [i \in 1..Len(df) |-> Lower(df[i].titulo)]) # <<>>
            content == \E i \in 1..Len(df) :
                          \/ StrContains(Lower(df[i].descricao), q)
                          \/ StrContains(Lower(df[i].tags), q)
            k == tela[s].kind
        IN  /\ exact => /\ k = "chat_exact"
                        /\ tela[s].idx \in 1..Len(df)
                        /\ equal(tela[s].idx)
                        /\ \A j \in 1..(tela[s].idx - 1) : ~equal(j)
            /\ k = "chat_exact" => exact
            /\ k = "chat_fuzzy" => ~exact /\ fuzzy
            /\ k = "chat_search" => ~exact /\ ~fuzzy /\ content
            /\ k = "chat_no_match" => ~exact /\ ~fuzzy /\ ~content

\* C1's case: a query that differs from every title as typed is answered
\* chat_exact with the first of two rows whose titles both normalise to it.
C1_Witness ==
    \E s \in Sessions :
        /\ Resolved(s)
        /\ tela[s].kind = "chat_exact"
        /\ \A i \in 1..Len(acervo_df[s]) : acervo_df[s][i].titulo # entrada[s].pergunta
        /\ \E j \in (tela[s].idx + 1)..Len(acervo_df[s]) :
              Lower(acervo_df[s][j].titulo) = Lower(acervo_df[s][tela[s].idx].titulo)

\* The ids of a table are pairwise distinct as numbers.
DistinctIds(df) ==
    \A i, j \in 1..Len(df) : i # j => IdValue(df[i].id) # IdValue(df[j].id)

\* C3: with interactions handled one at a time, the ids of the records are
\* pairwise distinct in every in-memory table and in the persisted snapshot.
C3_IdsDistinct ==
    /\ DistinctIds(db_json.rows)
    /\ \A s \in Sessions : DistinctIds(acervo_df[s])

\* C3's case: the snapshot holds the seed's records and the records of two
\* submissions.
C3_Witness ==
    /\ db_json.st = "ok"
    /\ Len(data_csv) >= 2
    /\ Len(db_json.rows) = Len(data_csv) + 2

IsDigit(c) == \E d \in 1..10 : Digits[d] = c

\* A string of decimal digits without a leading zero.
IsDecimal(str) ==
    /\ str # <<>>
    /\ \A i \in 1..Len(str) : IsDigit(str[i])
    /\ Len(str) > 1 => str[1] # "0"

\* C4: a submission gives the new record the id that is the decimal string
\* of the numerically largest loaded id plus one, and "1" when the loaded
\* table is empty.
C4_NewId ==
    \A s \in Sessions : Submitted(s) =>
        LET loaded == Front(acervo_df[s])
            id == Last(acervo_df[s]).id
        IN  /\ id.t = "str"
            /\ IsDecimal(id.s)
            /\ loaded = <<>> => id.s = <<"1">>
            /\ loaded # <<>> =>
                  /\ \E i \in 1..Len(loaded) : ParseInt(id.s) = IdValue(loaded[i].id) + 1
                  /\ \A i \in 1..Len(loaded) : ParseInt(id.s) > IdValue(loaded[i].id)

\* C4's case: the largest loaded id is not the last row's, and a submission
\* has been given its successor.
C4_Witness ==
    \E s \in Sessions :
        /\ Submitted(s)
        /\ Len(acervo_df[s]) >= 3
        /\ IdValue(acervo_df[s][1].id) > IdValue(acervo_df[s][Len(acervo_df[s]) - 1].id)
        /\ Last(acervo_df[s]).id.s = <<"4">>

\* C4's empty case: a submission on the empty table.
C4_WitnessEmpty ==
    \E s \in Sessions : Submitted(s) /\ Len(acervo_df[s]) = 1

\* The record a load reads back for the form `ficha` saved under `id`.
SameRecord(row, ficha, id) ==
    /\ row.titulo = ficha.titulo
    /\ row.descricao = ficha.descricao
    /\ row.tags = ficha.tags
    /\ IdValue(row.id) = IdValue(id)

C9_LastWriteWins ==
    [][\A s, t \in Sessions :
          ( /\ s # t
            /\ pc[s] = "loaded" /\ menu[s] = "Criar Ficha" /\ pc'[s] = "saved"
            /\ Submitted(t)
            /\ Front(acervo_df[t]) = acervo_df[s] ) =>
              LET base == acervo_df[s]
                  mine == Last(acervo_df'[s])
                  theirs == Last(acervo_df[t])
              IN  /\ mine.id = theirs.id
                  /\ db_json'.st = "ok"
                  /\ Len(db_json'.rows) = Len(base) + 1
                  /\ SubSeq(db_json'.rows, 1, Len(base)) = base
                  /\ Last(db_json'.rows) = mine
                  /\ mine # theirs =>
                        \A i \in 1..Len(db_json'.rows) : db_json'.rows[i] # theirs]_vars

\* C9's case: two submissions of different forms loaded the same table,
\* both saves completed, and the snapshot holds one of the two records.
C9_Witness ==
    \E s, t \in Sessions :
        /\ s # t
        /\ Submitted(s) /\ Submitted(t)
        /\ Front(acervo_df[s]) = Front(acervo_df[t])
        /\ Last(acervo_df[s]) # Last(acervo_df[t])
        /\ Last(acervo_df[s]).id = Last(acervo_df[t]).id
        /\ db_json = JsonTable(acervo_df[s])
        /\ erro[t] = NoErro

Views == {"Dashboard", "Mapa Interativo", "Galeria", "Chatbot"}

\* C10: a step changes the catalog snapshot only when it is a submission's
\* save; the Dashboard, Mapa Interativo, Galeria and Chatbot branches leave
\* the snapshot and the seed file as they were.
C10_OnlyCreateWrites ==
    [][/\ db_json' # db_json =>
            \E s \in Sessions :
                pc[s] = "loaded" /\ menu[s] = "Criar Ficha" /\ pc'[s] # "loaded"
       /\ \A s \in Sessions :
            (pc[s] = "loaded" /\ menu[s] \in Views /\ pc'[s] = "done") =>
                db_json' = db_json /\ data_csv' = data_csv]_vars

\* C10's case: the map view has replaced a text coordinate by NaN in the
\* in-memory table while the snapshot still holds the text.
C10_Witness ==
    \E s \in Sessions :
        /\ pc[s] = "done" /\ menu[s] = "Mapa Interativo"
        /\ db_json.st = "ok"
        /\ \E i \in 1..Len(acervo_df[s]) :
              /\ acervo_df[s][i].latitude = "nan"
              /\ db_json.rows[i].latitude = "txt"

\* The entries of the log file, none when it holds no list.
Entries(file) == IF file.st = "list" THEN file.entries ELSE <<>>

\* C2: every resolution that passed the boundary check has appended one
\* entry to the Event Log, which records the stage that answered, the raw
\* query and the matched record's id (no id for chat_no_match).  Stated of
\* the runs that log_event itself did not end (those are C6's): with
\* interactions handled one at a time, the entry is the log's last.
C2_ResolutionLogged ==
    \A s \in Sessions :
        (Resolved(s) /\ erro[s].at # "log_event") =>
            /\ logs_json.st = "list"
            /\ logs_json.entries # <<>>
            /\ LET e == Last(logs_json.entries).event
               IN  /\ e.action \in ChatActions
                   /\ e.action = tela[s].kind
                   /\ e.query = entrada[s].pergunta
                   /\ e.action = "chat_no_match" => e.id = NoId
                   /\ e.action # "chat_no_match" =>
                         e.id = acervo_df[s][tela[s].idx].id

\* C2 for the step itself: a resolution's step adds exactly one entry.
C2_ExactlyOneEntry ==
    [][\A s \in Sessions :
          ( /\ pc[s] = "loaded" /\ menu[s] = "Chatbot" /\ pc'[s] = "done"
            /\ ~BoundaryRejects(entrada[s].pergunta) ) =>
              /\ logs_json'.st = "list"
              /\ Front(logs_json'.entries) = Entries(logs_json)]_vars

\* C6: no run is ended by an exception raised by log_event.
C6_LogEventNeverRaises ==
    \A s \in Sessions : erro[s].at # "log_event"

\* C7: a query that is empty or only whitespace gets the validation
\* message, no answer and no record, and no chat entry in the Event Log
\* carries such a query.
C7_BlankQueryRejected ==
    /\ \A s \in Sessions :
          (pc[s] = "done" /\ menu[s] = "Chatbot"
                /\ Strip(entrada[s].pergunta) = <<>>) =>
              tela[s] = Tela("warning", 0, 0)
    /\ \A i \in 1..Len(Entries(logs_json)) :
          logs_json.entries[i].event.action \in ChatActions =>
              Strip(logs_json.entries[i].event.query) # <<>>

\* C8: a call of log_event (one reading of the clock) leaves every entry
\* the log held in place and adds exactly one entry at the end.
C8_AppendOnly ==
    [][clock' # clock =>
          /\ logs_json'.st = "list"
          /\ Len(logs_json'.entries) = Len(Entries(logs_json)) + 1
          /\ Front(logs_json'.entries) = Entries(logs_json)]_vars

\* C8, the entries alone: a log that holds a list keeps every entry, in
\* its place, in every later state.
C8_NeverPruned ==
    [][logs_json.st = "list" =>
          /\ logs_json'.st = "list"
          /\ Len(logs_json'.entries) >= Len(logs_json.entries)
          /\ SubSeq(logs_json'.entries, 1, Len(logs_json.entries))
                = logs_json.entries]_vars

=============================================================================
